---- MODULE Spec2Model ----
(***************************************************************************)
(* Transformer-in-Transformer (TNT) model construction, as written in      *)
(* examples/vision/ipynb/transformer_in_transformer.ipynb.                 *)
(*                                                                         *)
(* The program builds a Keras graph.  The model keeps the graph as a       *)
(* sequence of nodes; a node is one layer call or one tf op, with the ids  *)
(* of the tensors it reads, its attributes and the shape the framework     *)
(* infers for its output.  A tensor is named by the index of the node that *)
(* produced it.  Dropout rates are in percent.                             *)
(***************************************************************************)
EXTENDS Integers, Sequences, FiniteSets, TLC

VARIABLES pc, cfg, graph, pixel_embedding, patch_embedding, num_patches,
          num_pixels, layer_i, calls, head_in, ret

vars == <<pc, cfg, graph, pixel_embedding, patch_embedding, num_patches,
          num_pixels, layer_i, calls, head_in, ret>>

(***************************************************************************)
(* Bounds of the model.                                                    *)
(***************************************************************************)
MaxLayers == 2
MaxBatch == 2
MaxStride == 4
MaxPatch == 8
MaxTokens == 2
MaxDim == 2

(***************************************************************************)
(* Module-level hyperparameters of the notebook.                           *)
(***************************************************************************)
num_classes == 100
batch_size == 128
input_shape == <<32, 32, 3>>
image_size == <<96, 96>>
patch_size == <<8, 8>>
outer_block_embedding_dim == 64
inner_block_embedding_dim == 32
num_transformer_layer == 5
outer_block_num_heads == 4
inner_block_num_heads == 2
mlp_ratio == 4
attention_dropout == 50
projection_dropout == 50
first_stride == 4
mlp_drop_rate == 20
conv_kernel_size == 7

(***************************************************************************)
(* Shapes.  A shape is a sequence of dimensions; Unknown stands for a      *)
(* dimension the framework does not know when the graph is built (None),   *)
(* and Err for the shape error the framework raises.                       *)
(***************************************************************************)
Unknown == -1
Err == <<>>

RECURSIVE Prod(_)
Prod(s) == IF s = <<>> THEN 1 ELSE Head(s) * Prod(Tail(s))

CeilDiv(a, b) == (a + b - 1) \div b

FullyKnown(s) == \A k \in 1..Len(s) : s[k] # Unknown

ReplaceLast(s, d) == [s EXCEPT ![Len(s)] = d]

\* tf.reshape with one -1 in the target: the framework infers the missing
\* dimension when the input is fully known and raises when the element
\* counts do not divide; with an unknown input dimension it checks nothing.
ReshapeShape(in, target) ==
    LET known == Prod(SelectSeq(target, LAMBDA d : d # -1))
    IN  IF in = Err THEN Err
        ELSE IF ~FullyKnown(in) THEN [k \in 1..Len(target) |->
                                        IF target[k] = -1 THEN Unknown ELSE target[k]]
        ELSE IF known = 0 \/ Prod(in) % known # 0 THEN Err
        ELSE [k \in 1..Len(target) |->
                IF target[k] = -1 THEN Prod(in) \div known ELSE target[k]]

\* One dimension of an elementwise sum; 0 stands for "incompatible".
BroadcastDim(a, b) ==
    IF a = Unknown \/ b = Unknown THEN Unknown
    ELSE IF a = b THEN a
    ELSE IF a = 1 THEN b
    ELSE IF b = 1 THEN a
    ELSE 0

\* layers.add: equal ranks, equal batch sizes when both are known, the other
\* dimensions equal or broadcast from 1.
AddShape(a, b) ==
    IF a = Err \/ b = Err \/ Len(a) # Len(b) THEN Err
    ELSE IF a[1] # Unknown /\ b[1] # Unknown /\ a[1] # b[1] THEN Err
    ELSE IF \E k \in 2..Len(a) : BroadcastDim(a[k], b[k]) = 0 THEN Err
    ELSE [k \in 1..Len(a) |-> IF k = 1
                              THEN (IF a[1] = Unknown THEN b[1] ELSE a[1])
                              ELSE BroadcastDim(a[k], b[k])]

\* layers.Dense(units): replaces the last dimension, which must be known.
DenseShape(in, units) ==
    IF in = Err \/ Len(in) < 2 \/ in[Len(in)] = Unknown THEN Err
    ELSE ReplaceLast(in, units)

\* The convolution with padding="valid" in place of "same".
Conv2DValidShape(in, filters, stride) ==
    IF in = Err \/ Len(in) # 4 THEN Err
    ELSE <<in[1], (in[2] - conv_kernel_size) \div stride + 1,
           (in[3] - conv_kernel_size) \div stride + 1, filters>>

\* layers.Conv2D(filters, kernel_size, strides, padding="same")
Conv2DSameShape(in, filters, stride) ==
    IF in = Err \/ Len(in) # 4 THEN Err
    ELSE <<in[1], CeilDiv(in[2], stride), CeilDiv(in[3], stride), filters>>

\* tf.image.extract_patches with sizes = strides = (1, r, c, 1), VALID
ExtractPatchesShape(in, r, c) ==
    IF in = Err \/ Len(in) # 4 THEN Err
    ELSE <<in[1], in[2] \div r, in[3] \div c, r * c * in[4]>>

\* PatchEncoder.call: projection(patch) + position_embedding(range(n))
PatchEncoderShape(in, n, projection_dim) ==
    LET proj == DenseShape(in, projection_dim)
    IN  IF proj = Err \/ Len(proj) # 3 THEN Err
        ELSE IF BroadcastDim(proj[2], n) = 0 THEN Err
        ELSE <<proj[1], BroadcastDim(proj[2], n), projection_dim>>

\* layers.MultiHeadAttention(...)(query, value): output has the query's shape
AttentionShape(q, v) ==
    IF q = Err \/ v = Err \/ Len(q) # 3 \/ Len(v) # 3 THEN Err
    ELSE IF q[1] # Unknown /\ v[1] # Unknown /\ q[1] # v[1] THEN Err
    ELSE q

\* layers.GlobalAvgPool1D
PoolShape(in) ==
    IF in = Err \/ Len(in) # 3 THEN Err ELSE <<in[1], in[3]>>

\* layers.Resizing(height, width)
ResizingShape(in, h, w) ==
    IF in = Err \/ Len(in) # 4 THEN Err ELSE <<in[1], h, w, in[4]>>

\* The output shape of one node, from its op, its attributes and the shapes
\* of the tensors it reads.
ShapeOf(op, attr, ins) ==
    CASE op = "Input" -> attr
      [] op = "Resizing" -> ResizingShape(ins[1], attr[1], attr[2])
      [] op = "Conv2D" -> Conv2DSameShape(ins[1], attr[1], attr[3])
      [] op = "extract_patches" -> ExtractPatchesShape(ins[1], attr[1], attr[2])
      [] op = "reshape" -> ReshapeShape(ins[1], attr)
      [] op = "PatchEncoder" -> PatchEncoderShape(ins[1], attr[1], attr[2])
      [] op = "Dense" -> DenseShape(ins[1], attr[1])
      [] op = "add" -> AddShape(ins[1], ins[2])
      [] op = "MultiHeadAttention" -> AttentionShape(ins[1], ins[2])
      [] op = "GlobalAvgPool1D" -> PoolShape(ins[1])
      [] OTHER -> ins[1]

\* Ops that are layers with weights of their own.
HasWeights(op) ==
    op \in {"Conv2D", "PatchEncoder", "Dense", "LayerNormalization",
            "MultiHeadAttention"}

\* In a list of inputs, Last names the tensor produced by the latest node.
Last == 0
Ref(g, r) == IF r = Last THEN Len(g) ELSE r

\* The call that raised, if any, is the latest node: nothing is built after it.
HasError(g) == g # <<>> /\ g[Len(g)].shape = Err

\* Calling a newly constructed layer (or a tf op) on the tensors ins: one
\* more node; blk is the TNT block the call belongs to, 0 outside the blocks.
\* After a call has raised no further call is reached.
Apply(g, op, tag, attr, ins, blk) ==
    IF HasError(g) THEN g
    ELSE Append(g, [op |-> op, tag |-> tag, attr |-> attr, blk |-> blk,
                    ins |-> [k \in 1..Len(ins) |-> Ref(g, ins[k])],
                    layer |-> IF HasWeights(op) THEN Len(g) + 1 ELSE 0,
                    shape |-> ShapeOf(op, attr,
                                      [k \in 1..Len(ins) |-> g[Ref(g, ins[k])].shape])])

(***************************************************************************)
(* The functions of the notebook.  Each takes the graph built so far and   *)
(* returns it with the nodes its layer calls add; the tensor a function    *)
(* returns is the last node it added unless stated otherwise.              *)
(***************************************************************************)

\* data_augmentation(inputs): resizes to the module-level image_size.
data_augmentation(g, inputs) ==
    LET g1 == Apply(g, "Rescaling", "rescaling", <<>>, <<inputs>>, 0)
        g2 == Apply(g1, "Resizing", "resizing", image_size, <<Last>>, 0)
        g3 == Apply(g2, "RandomFlip", "random_flip", <<>>, <<Last>>, 0)
        g4 == Apply(g3, "RandomRotation", "random_rotation", <<>>, <<Last>>, 0)
        g5 == Apply(g4, "RandomContrast", "random_contrast", <<>>, <<Last>>, 0)
    IN  Apply(g5, "RandomZoom", "random_zoom", <<>>, <<Last>>, 0)

\* num_patches taking the image for square: the height used for both sides.
NumPatchesSquare(img, patch) == (img[1] \div patch[1]) * (img[1] \div patch[2])

\* num_patches as pixel_embed computes it, from its image_size argument.
NumPatches(img, patch) == (img[1] \div patch[1]) * (img[2] \div patch[2])

\* inner_patch_size = [math.ceil(ps / stride) for ps in patch_size]
InnerPatchSize(patch, stride) ==
    <<CeilDiv(patch[1], stride), CeilDiv(patch[2], stride)>>

\* The strided convolution of pixel_embed.
PixelConv(g, x, in_dim, stride) ==
    Apply(g, "Conv2D", "pixel_conv", <<in_dim, conv_kernel_size, stride>>, <<x>>, 0)

\* pixel_embed(x, image_size, patch_size, in_dim, stride): returns the graph,
\* the pixel embedding, num_patches and inner_patch_size.
pixel_embed(g, x, img, patch, in_dim, stride) ==
    LET inner == InnerPatchSize(patch, stride)
        g1 == PixelConv(g, x, in_dim, stride)
        g2 == Apply(g1, "extract_patches", "pixel_extract", inner, <<Last>>, 0)
        g3 == Apply(g2, "reshape", "pixel_reshape",
                    <<-1, inner[1] * inner[2], in_dim>>, <<Last>>, 0)
        g4 == Apply(g3, "PatchEncoder", "pixel_encoder",
                    <<inner[1] * inner[2], in_dim>>, <<Last>>, 0)
    IN  [g |-> g4, num_patches |-> NumPatches(img, patch), inner_patch_size |-> inner]

\* The rate of the dropout that ends patch_embed: the module-level
\* projection_dropout (patch_embed has no such parameter).
PatchEmbedDropRate == projection_dropout

\* patch_embed(pixel_embedding, num_patches, outer_block_embedding_dim,
\*             inner_block_embedding_dim, num_pixels)
patch_embed(g, pix, np, outer_dim, inner_dim, npix) ==
    LET g1 == Apply(g, "reshape", "patch_fold", <<-1, np, inner_dim * npix>>, <<pix>>, 0)
        g2 == Apply(g1, "LayerNormalization", "patch_norm1", <<>>, <<Last>>, 0)
        g3 == Apply(g2, "Dense", "patch_proj", <<outer_dim>>, <<Last>>, 0)
        g4 == Apply(g3, "LayerNormalization", "patch_norm2", <<>>, <<Last>>, 0)
        g5 == Apply(g4, "PatchEncoder", "patch_encoder", <<np, outer_dim>>, <<Last>>, 0)
    IN  Apply(g5, "Dropout", "patch_dropout", <<PatchEmbedDropRate>>, <<Last>>, 0)

\* mlp(x, hidden_dim, output_dim, drop_rate), applied to the latest tensor.
mlp(g, hidden_dim, output_dim, drop_rate, blk, tag) ==
    LET g1 == Apply(g, "Dense", tag, <<hidden_dim>>, <<Last>>, blk)
        g2 == Apply(g1, "Dropout", tag, <<drop_rate>>, <<Last>>, blk)
        g3 == Apply(g2, "Dense", tag, <<output_dim>>, <<Last>>, blk)
    IN  Apply(g3, "Dropout", tag, <<drop_rate>>, <<Last>>, blk)

\* The drop_rate the block's two mlp calls use: they pass none, so it is the
\* default of mlp's signature, whatever projection_dropout the block is given.
BlockMlpDropRate(proj_drop) == mlp_drop_rate

\* The inner mlp left at its hidden width.
InnerMlpHiddenDim(in_dim, ratio) == in_dim * ratio

\* The output width the block asks of its inner mlp.
InnerMlpOutputDim(in_dim, ratio) == in_dim

\* The fusion reading the pixel embedding the block was given.
FusionSourceInput(block_input, after_attention, after_mlp) == block_input

\* The tensor the fusion reshape of a block reads: the pixel embedding after
\* the second inner residual addition.
FusionSource(block_input, after_attention, after_mlp) == after_mlp

\* The first residual of the outer step: the patch embedding after the fused
\* projection was added to it.
ResidualOut1(block_patch_input, fused_patch) == fused_patch

\* transformer_in_transformer_block(...): returns the graph and the pair
\* (pixel_embedding, patch_embedding).  The block makes 22 calls; the tensors
\* it names are numbered from the first node it adds.
transformer_in_transformer_block(g, pix, pat, out_dim, in_dim, npix, out_heads, in_heads, ratio, att_drop, proj_drop, blk) ==
    LET base == Len(g)
        residual_in_2 == base + 3
        pixel_out == base + 9
        fused_patch == base + 13
        residual_out_2 == base + 16
        \* _, num_patches, channel = patch_embedding.shape
        np == g[pat].shape[2]
        \* inner transformer block
        a1 == Apply(g, "LayerNormalization", "in_norm1", <<>>, <<pix>>, blk)
        a2 == Apply(a1, "MultiHeadAttention", "in_attention",
                    <<in_heads, in_dim, att_drop>>, <<Last, Last>>, blk)
        a3 == Apply(a2, "add", "in_add1", <<>>, <<Last, pix>>, blk)
        a4 == Apply(a3, "LayerNormalization", "in_norm2", <<>>, <<residual_in_2>>, blk)
        a5 == mlp(a4, in_dim * ratio, InnerMlpOutputDim(in_dim, ratio),
                  BlockMlpDropRate(proj_drop), blk, "in_mlp")
        a6 == Apply(a5, "add", "in_add2", <<>>, <<Last, residual_in_2>>, blk)
        \* outer transformer block
        b1 == Apply(a6, "reshape", "fused_reshape", <<-1, np, in_dim * npix>>,
                    <<FusionSource(pix, residual_in_2, pixel_out)>>, blk)
        b2 == Apply(b1, "LayerNormalization", "fused_norm", <<>>, <<Last>>, blk)
        b3 == Apply(b2, "Dense", "fused_proj", <<out_dim>>, <<Last>>, blk)
        b4 == Apply(b3, "add", "fuse_add", <<>>, <<pat, Last>>, blk)
        b5 == Apply(b4, "LayerNormalization", "out_norm1", <<>>, <<fused_patch>>, blk)
        b6 == Apply(b5, "MultiHeadAttention", "out_attention",
                    <<out_heads, out_dim, att_drop>>, <<Last, Last>>, blk)
        b7 == Apply(b6, "add", "out_add1", <<>>,
                    <<Last, ResidualOut1(pat, fused_patch)>>, blk)
        b8 == Apply(b7, "LayerNormalization", "out_norm2", <<>>, <<residual_out_2>>, blk)
        b9 == mlp(b8, out_dim * ratio, out_dim, BlockMlpDropRate(proj_drop), blk, "out_mlp")
        b10 == Apply(b9, "add", "out_add2", <<>>, <<Last, residual_out_2>>, blk)
    IN  [g |-> b10, pixel_embedding |-> pixel_out]

(***************************************************************************)
(* Running a built graph on a batch of batch images: the same shape rules  *)
(* with the batch dimension known; the run stops at the op that raises.    *)
(***************************************************************************)
RECURSIVE RunShapes(_, _, _)
RunShapes(g, batch, acc) ==
    IF Len(acc) = Len(g) \/ (acc # <<>> /\ acc[Len(acc)] = Err) THEN acc
    ELSE LET n == g[Len(acc) + 1]
             s == IF n.op = "Input" THEN <<batch>> \o Tail(n.attr)
                  ELSE ShapeOf(n.op, n.attr, [k \in 1..Len(n.ins) |-> acc[n.ins[k]]])
         IN  RunShapes(g, batch, Append(acc, s))

(***************************************************************************)
(* Inputs.                                                                 *)
(***************************************************************************)
ImageSizes == {<<96, 96>>, <<32, 32>>, <<96, 48>>}
PatchDims == {p \in 1..MaxPatch : p + 2 >= MaxPatch}
PatchSizes == PatchDims \X PatchDims
Strides == 1..MaxStride
EmbeddingDims == {<<32, 64>>, <<8, 24>>}
DropoutRates == {0, 50}

\* The keyword arguments of one get_model call.
Configs ==
    [image_size : ImageSizes, patch_size : PatchSizes,
     dims : EmbeddingDims,
     num_transformer_layer : 1..MaxLayers,
     outer_block_num_heads : {outer_block_num_heads},
     inner_block_num_heads : {inner_block_num_heads},
     mlp_ratio : {mlp_ratio},
     attention_dropout : DropoutRates, projection_dropout : DropoutRates,
     first_stride : Strides]

\* model = get_model(): every argument at its default.
DefaultConfig ==
    [image_size |-> image_size, patch_size |-> patch_size,
     dims |-> <<inner_block_embedding_dim, outer_block_embedding_dim>>,
     num_transformer_layer |-> num_transformer_layer,
     outer_block_num_heads |-> outer_block_num_heads,
     inner_block_num_heads |-> inner_block_num_heads,
     mlp_ratio |-> mlp_ratio,
     attention_dropout |-> attention_dropout,
     projection_dropout |-> projection_dropout,
     first_stride |-> first_stride]

NoRet == [shape |-> Err]

(***************************************************************************)
(* get_model, one action per stage of its body.                            *)
(***************************************************************************)
Init ==
    /\ pc = "get_model"
    /\ cfg \in Configs \cup {DefaultConfig}
    /\ graph = <<>>
    /\ pixel_embedding = 0
    /\ patch_embedding = 0
    /\ num_patches = 0
    /\ num_pixels = 0
    /\ layer_i = 0
    /\ calls = <<>>
    /\ head_in = 0
    /\ ret = NoRet

\* A stage ends by raising when one of its calls raised.
Stage(g, next) ==
    /\ graph' = g
    /\ pc' = IF HasError(g) THEN "raised" ELSE next

\* inputs = layers.Input(shape=input_shape); x = data_augmentation(inputs)
Augment ==
    /\ pc = "get_model"
    /\ LET g0 == Apply(<<>>, "Input", "inputs", <<Unknown>> \o input_shape, <<>>, 0)
       IN  Stage(data_augmentation(g0, Last), "pixel_embed")
    /\ UNCHANGED <<cfg, pixel_embedding, patch_embedding, num_patches, num_pixels,
                   layer_i, calls, head_in, ret>>

\* pixel_embedding, num_patches, inner_patch_size = pixel_embed(x, ...)
\* num_pixels = inner_patch_size[0] * inner_patch_size[1]
PixelEmbed ==
    /\ pc = "pixel_embed"
    /\ LET r == pixel_embed(graph, Last, cfg.image_size, cfg.patch_size,
                            cfg.dims[1], cfg.first_stride)
       IN  /\ Stage(r.g, "patch_embed")
           /\ pixel_embedding' = Len(r.g)
           /\ num_patches' = r.num_patches
           /\ num_pixels' = r.inner_patch_size[1] * r.inner_patch_size[2]
    /\ UNCHANGED <<cfg, patch_embedding, layer_i, calls, head_in, ret>>

\* The fold given the outer embedding dimension.
FoldArgsOuter == <<cfg.dims[2], num_pixels>>

\* The arguments get_model gives patch_embed for the fold: the inner
\* embedding dimension and num_pixels.
FoldArgs == <<cfg.dims[1], num_pixels>>

\* patch_embedding = patch_embed(pixel_embedding, num_patches, ...)
PatchEmbed ==
    /\ pc = "patch_embed"
    /\ LET g == patch_embed(graph, pixel_embedding, num_patches, cfg.dims[2],
                            FoldArgs[1], FoldArgs[2])
       IN  /\ Stage(g, "blocks")
           /\ patch_embedding' = Len(g)
    /\ UNCHANGED <<cfg, pixel_embedding, num_patches, num_pixels, layer_i, calls,
                   head_in, ret>>

\* The loop passing every block the patch embedding patch_embed returned.
BlockInputsStale ==
    <<pixel_embedding, CHOOSE k \in 1..Len(graph) : graph[k].tag = "patch_dropout">>

\* The pair of tensors the loop passes to the next block: the loop variables,
\* which hold what the previous block returned.
BlockInputs == <<pixel_embedding, patch_embedding>>

\* One iteration of: for _ in range(num_transformer_layer): ...
Block ==
    /\ pc = "blocks"
    /\ layer_i < cfg.num_transformer_layer
    /\ LET r == transformer_in_transformer_block(
                    graph, BlockInputs[1], BlockInputs[2], cfg.dims[2], cfg.dims[1],
                    num_pixels, cfg.outer_block_num_heads, cfg.inner_block_num_heads,
                    cfg.mlp_ratio, cfg.attention_dropout, cfg.projection_dropout,
                    layer_i + 1)
       IN  /\ Stage(r.g, "blocks")
           /\ pixel_embedding' = r.pixel_embedding
           /\ patch_embedding' = Len(r.g)
           /\ calls' = Append(calls, [pixel_in |-> BlockInputs[1],
                                      patch_in |-> BlockInputs[2],
                                      pixel_out |-> r.pixel_embedding,
                                      patch_out |-> Len(r.g)])
    /\ layer_i' = layer_i + 1
    /\ UNCHANGED <<cfg, num_patches, num_pixels, head_in, ret>>

\* The classification head and keras.Model(inputs, outputs).
Classify ==
    /\ pc = "blocks"
    /\ layer_i = cfg.num_transformer_layer
    /\ LET g1 == Apply(graph, "LayerNormalization", "head_norm", <<>>,
                       <<patch_embedding>>, 0)
           g2 == Apply(g1, "GlobalAvgPool1D", "head_pool", <<>>, <<Last>>, 0)
           g3 == Apply(g2, "Dense", "outputs", <<num_classes>>, <<Last>>, 0)
       IN  Stage(g3, "built")
    /\ head_in' = patch_embedding
    /\ UNCHANGED <<cfg, pixel_embedding, patch_embedding, num_patches, num_pixels,
                   layer_i, calls, ret>>

\* The built model applied to one batch (model.fit / model.evaluate).
Run ==
    /\ pc = "built"
    /\ \E batch \in (1..MaxBatch) \cup {batch_size} :
          LET shapes == RunShapes(graph, batch, <<>>)
          IN  ret' = [batch |-> batch,
                      shape |-> shapes[Len(shapes)]]
    /\ pc' = "ran"
    /\ UNCHANGED <<cfg, graph, pixel_embedding, patch_embedding, num_patches,
                   num_pixels, layer_i, calls, head_in>>

Next == Augment \/ PixelEmbed \/ PatchEmbed \/ Block \/ Classify \/ Run

Spec == Init /\ [][Next]_vars

(***************************************************************************)
(* pixel_embed called on its own, on a batch of images of any size: the    *)
(* image_size argument and the size of the tensor are separate inputs.     *)
(***************************************************************************)
InDims == {32, 8}

PixelCalls ==
    [batch : 1..MaxBatch, x_size : ImageSizes, image_size : ImageSizes,
     patch_size : PatchSizes, in_dim : InDims, stride : Strides]

InitPixel ==
    /\ pc = "call_pixel_embed"
    /\ cfg \in PixelCalls
    /\ graph = <<>>
    /\ pixel_embedding = 0
    /\ patch_embedding = 0
    /\ num_patches = 0
    /\ num_pixels = 0
    /\ layer_i = 0
    /\ calls = <<>>
    /\ head_in = 0
    /\ ret = NoRet

CallPixelEmbed ==
    /\ pc = "call_pixel_embed"
    /\ LET x == Apply(<<>>, "Input", "x",
                      <<cfg.batch, cfg.x_size[1], cfg.x_size[2], input_shape[3]>>,
                      <<>>, 0)
           r == pixel_embed(x, Last, cfg.image_size, cfg.patch_size, cfg.in_dim,
                            cfg.stride)
       IN  /\ Stage(r.g, "returned")
           /\ pixel_embedding' = Len(r.g)
           /\ num_patches' = r.num_patches
           /\ num_pixels' = r.inner_patch_size[1] * r.inner_patch_size[2]
           /\ ret' = [shape |-> r.g[Len(r.g)].shape]
    /\ UNCHANGED <<cfg, patch_embedding, layer_i, calls, head_in>>

NextPixel == CallPixelEmbed

SpecPixel == InitPixel /\ [][NextPixel]_vars

(***************************************************************************)
(* transformer_in_transformer_block called on its own, on a pixel          *)
(* embedding of shape (batch * n, p, d_in) and a patch embedding of shape  *)
(* (batch, n, d_out); the dimensions named in the arguments are separate   *)
(* inputs.                                                                 *)
(***************************************************************************)
NamedShapes == {<<144, 4, 32, 64>>, <<36, 16, 16, 32>>, <<64, 9, 8, 24>>}
MlpRatios == {1, mlp_ratio}

SmallBlockCalls ==
    [batch : 1..MaxBatch, n : 1..MaxTokens, p : 1..MaxTokens,
     d_in : 1..MaxDim, d_out : 1..MaxDim,
     in_embedding_dim : 1..MaxDim, out_embedding_dim : 1..MaxDim,
     num_pixels : 1..MaxTokens, mlp_ratio : MlpRatios,
     out_num_heads : {outer_block_num_heads}, in_num_heads : {inner_block_num_heads},
     attention_dropout : {attention_dropout}, projection_dropout : {projection_dropout}]

NamedBlockCalls ==
    {[batch |-> b, n |-> c[1], p |-> c[2], d_in |-> c[3], d_out |-> c[4],
      in_embedding_dim |-> c[3], out_embedding_dim |-> c[4], num_pixels |-> c[2],
      mlp_ratio |-> r, out_num_heads |-> oh, in_num_heads |-> ih,
      attention_dropout |-> attention_dropout,
      projection_dropout |-> projection_dropout] :
        b \in 1..MaxBatch, c \in NamedShapes, r \in MlpRatios,
        oh \in {1, outer_block_num_heads}, ih \in {1, inner_block_num_heads}}

BlockCalls == SmallBlockCalls \cup NamedBlockCalls

InitBlock ==
    /\ pc = "call_block"
    /\ cfg \in BlockCalls
    /\ graph = <<>>
    /\ pixel_embedding = 0
    /\ patch_embedding = 0
    /\ num_patches = 0
    /\ num_pixels = 0
    /\ layer_i = 0
    /\ calls = <<>>
    /\ head_in = 0
    /\ ret = NoRet

CallBlock ==
    /\ pc = "call_block"
    /\ LET g1 == Apply(<<>>, "Input", "pixel_embedding",
                       <<cfg.batch * cfg.n, cfg.p, cfg.d_in>>, <<>>, 0)
           g2 == Apply(g1, "Input", "patch_embedding",
                       <<cfg.batch, cfg.n, cfg.d_out>>, <<>>, 0)
           r == transformer_in_transformer_block(
                    g2, 1, 2, cfg.out_embedding_dim, cfg.in_embedding_dim,
                    cfg.num_pixels, cfg.out_num_heads, cfg.in_num_heads,
                    cfg.mlp_ratio, cfg.attention_dropout, cfg.projection_dropout, 1)
       IN  /\ Stage(r.g, "returned")
           /\ pixel_embedding' = r.pixel_embedding
           /\ patch_embedding' = Len(r.g)
    /\ UNCHANGED <<cfg, num_patches, num_pixels, layer_i, calls, head_in, ret>>

NextBlock == CallBlock

SpecBlock == InitBlock /\ [][NextBlock]_vars

(***************************************************************************)
(* Properties.                                                             *)
(***************************************************************************)
Nodes == 1..Len(graph)
Tagged(tag) == {k \in Nodes : graph[k].tag = tag}
Divides(img, patch) == img[1] % patch[1] = 0 /\ img[2] % patch[2] = 0
GetModelPcs == {"get_model", "pixel_embed", "patch_embed", "blocks", "built", "ran",
                "raised"}
InGetModel == pc \in GetModelPcs
AfterPixelEmbed == pc \in {"patch_embed", "blocks", "built", "ran"}

\* The number of pixel-token groups pixel_embed extracts from one image.
GroupsPerImage ==
    LET k == CHOOSE k \in Tagged("pixel_extract") : TRUE
    IN  graph[k].shape[2] * graph[k].shape[3]

\* C1: for every patch size and stride (the tensor having the size get_model
\* was given and the patch size dividing it), the number of pixel-token
\* groups pixel_embed produces per image equals the num_patches it returns.
C1_GroupsEqualNumPatches ==
    (AfterPixelEmbed /\ cfg.image_size = image_size
        /\ Divides(cfg.image_size, cfg.patch_size))
    => GroupsPerImage = num_patches

\* C2: whenever the patch size does not divide the image size, get_model
\* raises while building and returns no model (stated for the calls whose
\* image_size is the size the images are resized to, so that the size the
\* claim speaks of is also the size of the tensor).
C2_BuildFailsWhenPatchDoesNotDivide ==
    (InGetModel /\ cfg.image_size = image_size
        /\ ~Divides(cfg.image_size, cfg.patch_size))
    => pc \notin {"built", "ran"}

\* C3: on a batch of B images of size (H, W), with the patch size dividing
\* (H, W) and the stride dividing the patch size, pixel_embed returns a
\* tensor of shape (B * (H/ph) * (W/pw), ceil(ph/s) * ceil(pw/s), in_dim).
C3_PixelEmbedShape ==
    (pc = "returned" /\ "x_size" \in DOMAIN cfg
        /\ Divides(cfg.x_size, cfg.patch_size)
        /\ Divides(cfg.patch_size, <<cfg.stride, cfg.stride>>))
    => ret.shape = <<cfg.batch * (cfg.x_size[1] \div cfg.patch_size[1])
                               * (cfg.x_size[2] \div cfg.patch_size[2]),
                     CeilDiv(cfg.patch_size[1], cfg.stride)
                       * CeilDiv(cfg.patch_size[2], cfg.stride),
                     cfg.in_dim>>

C3_Witness ==
    /\ pc = "returned" /\ "x_size" \in DOMAIN cfg
    /\ cfg.batch = 2 /\ cfg.x_size = <<32, 32>> /\ cfg.patch_size = <<8, 8>>
    /\ cfg.stride = 4
    /\ ret.shape = <<2 * 16, 4, cfg.in_dim>>

\* C4: a block called with in_embedding_dim, out_embedding_dim and num_pixels
\* equal to the dimensions of its inputs returns a pixel embedding and a
\* patch embedding of the shapes of its inputs.
C4_BlockPreservesShapes ==
    (pc \in {"returned", "raised"} /\ "d_in" \in DOMAIN cfg
        /\ cfg.in_embedding_dim = cfg.d_in /\ cfg.out_embedding_dim = cfg.d_out
        /\ cfg.num_pixels = cfg.p)
    => /\ pc = "returned"
       /\ graph[pixel_embedding].shape = <<cfg.batch * cfg.n, cfg.p, cfg.d_in>>
       /\ graph[patch_embedding].shape = <<cfg.batch, cfg.n, cfg.d_out>>

C4_Witness ==
    /\ pc = "returned" /\ "d_in" \in DOMAIN cfg
    /\ <<cfg.n, cfg.p, cfg.d_in, cfg.d_out>> = <<144, 4, 32, 64>>
    /\ cfg.in_embedding_dim = 32 /\ cfg.out_embedding_dim = 64 /\ cfg.num_pixels = 4
    /\ cfg.batch = 2
    /\ graph[pixel_embedding].shape = <<288, 4, 32>>
    /\ graph[patch_embedding].shape = <<2, 144, 64>>

\* C5: in get_model the first block receives the tensors pixel_embed and
\* patch_embed returned, each later block the pair the block before it
\* returned, the head the patch embedding of the last block; every block reads
\* the tensors it is given, and no two layer calls share a layer.
C5_BlocksChained ==
    InGetModel =>
    /\ \A b \in 1..Len(calls) :
          /\ b = 1 => /\ calls[b].pixel_in \in Tagged("pixel_encoder")
                      /\ calls[b].patch_in \in Tagged("patch_dropout")
          /\ b > 1 => /\ calls[b].pixel_in = calls[b - 1].pixel_out
                      /\ calls[b].patch_in = calls[b - 1].patch_out
          /\ \A k \in Nodes :
                graph[k].blk = b =>
                   /\ graph[k].tag = "in_norm1" => graph[k].ins = <<calls[b].pixel_in>>
                   /\ graph[k].tag = "fuse_add" => graph[k].ins[1] = calls[b].patch_in
                   /\ \A j \in 1..Len(graph[k].ins) :
                         \/ graph[graph[k].ins[j]].blk = b
                         \/ graph[k].ins[j] \in {calls[b].pixel_in, calls[b].patch_in}
    /\ \A k, j \in Nodes :
          (k # j /\ graph[k].layer # 0) => graph[k].layer # graph[j].layer
    /\ pc \in {"built", "ran"} =>
          /\ Len(calls) = cfg.num_transformer_layer
          /\ head_in = calls[Len(calls)].patch_out
          /\ \A k \in Tagged("head_norm") : graph[k].ins = <<head_in>>

C5_Witness ==
    /\ pc = "built"
    /\ Len(calls) = 2
    /\ calls[2].pixel_in = calls[1].pixel_out
    /\ calls[2].patch_in = calls[1].patch_out
    /\ head_in = calls[2].patch_out

\* C6: when the patch size divides the image_size argument in both
\* dimensions, num_patches is exactly (image_h / patch_h) * (image_w / patch_w).
C6_NumPatchesExact ==
    (pc = "returned" /\ "x_size" \in DOMAIN cfg
        /\ Divides(cfg.image_size, cfg.patch_size))
    => num_patches * cfg.patch_size[1] * cfg.patch_size[2]
         = cfg.image_size[1] * cfg.image_size[2]

C6_Witness ==
    /\ pc = "returned" /\ "x_size" \in DOMAIN cfg
    /\ cfg.image_size = <<96, 48>> /\ cfg.patch_size = <<8, 6>>
    /\ cfg.stride = 3
    /\ num_patches = 12 * 8

\* C7: at every fold of pixel embeddings into patch space, the flattened
\* width of the reshape is the last dimension of the pixel embedding it
\* reads times the number of pixel tokens per group of that embedding.
C7_FoldWidth ==
    InGetModel =>
    \A k \in Tagged("patch_fold") \cup Tagged("fused_reshape") :
       LET in == graph[graph[k].ins[1]].shape
       IN  /\ Len(in) = 3
           /\ graph[k].attr[3] = in[3] * in[2]

C7_Witness ==
    /\ pc = "built"
    /\ Cardinality(Tagged("patch_fold")) = 1
    /\ Cardinality(Tagged("fused_reshape")) = 2
    /\ cfg.patch_size = <<8, 7>> /\ cfg.first_stride = 3 /\ cfg.dims[1] = 8
    /\ \A k \in Tagged("fused_reshape") : graph[k].attr[3] = 8 * 9

\* C8: in every block the fusion reads the pixel embedding produced by the
\* second inner residual addition, which follows the first; the fused
\* projection is added to the block's input patch embedding; the outer
\* normalization and the first outer residual read that sum.
C8_BlockOrder ==
    InGetModel =>
    \A k \in Nodes :
       LET n == graph[k]
           in(j) == graph[n.ins[j]]
       IN  /\ n.tag = "fused_reshape" =>
                /\ in(1).tag = "in_add2" /\ in(1).blk = n.blk
                /\ graph[in(1).ins[2]].tag = "in_add1"
                /\ graph[in(1).ins[2]].blk = n.blk
                /\ graph[in(1).ins[1]].tag = "in_mlp"
           /\ n.tag = "fuse_add" =>
                /\ n.ins[1] = calls[n.blk].patch_in
                /\ in(2).tag = "fused_proj" /\ in(2).blk = n.blk
                /\ \A j \in Nodes :
                      (graph[j].blk = n.blk
                         /\ graph[j].tag \in {"out_norm1", "out_attention", "out_add1",
                                              "out_norm2", "out_mlp", "out_add2"})
                      => j > k
           /\ n.tag = "out_norm1" =>
                in(1).tag = "fuse_add" /\ in(1).blk = n.blk
           /\ n.tag = "out_add1" =>
                /\ in(1).tag = "out_attention"
                /\ in(2).tag = "fuse_add" /\ in(2).blk = n.blk

C8_Witness ==
    /\ pc = "ran"
    /\ \A b \in 1..2 :
          \E k \in Tagged("out_add1") :
             /\ graph[k].blk = b
             /\ graph[graph[k].ins[2]].tag = "fuse_add"
             /\ graph[graph[graph[k].ins[2]].ins[2]].tag = "fused_proj"

\* C9: the tensor that enters pixel_embed has the spatial size of the
\* image_size argument of get_model.
C9_InputHasImageSizeArg ==
    (InGetModel /\ AfterPixelEmbed) =>
    \A k \in Tagged("pixel_conv") :
       LET in == graph[graph[k].ins[1]].shape
       IN  <<in[2], in[3]>> = cfg.image_size

\* C10: every dropout outside the attention layers has the rate
\* projection_dropout given to get_model, and every attention layer the
\* attention_dropout given to it.
C10_DropoutRates ==
    InGetModel =>
    \A k \in Nodes :
       /\ graph[k].op = "Dropout" => graph[k].attr[1] = cfg.projection_dropout
       /\ graph[k].op = "MultiHeadAttention" => graph[k].attr[3] = cfg.attention_dropout

====
